---- MODULE Spec2Model ----
(***************************************************************************)
(* Drum grid -> notation and playback.                                     *)
(*   App (grid store, remapGrid, resize effect)   src/unnamed/part_000     *)
(*   Notation (transcription of each bar)         src/unnamed/part_000     *)
(*   makeAudioEngine (lookahead scheduler)        src/src/audio/engine.js  *)
(* Time is counted in units of 2.5 ms (400 units per second), durations of *)
(* notation events in sixteenths of a whole note.                          *)
(***************************************************************************)
EXTENDS Integers, Sequences, FiniteSets, TLC

\* ------------------------------------------------------------- bounds
MaxBars == 2
MaxNum == 3
MaxCols == 6
MaxHits == 4
\* remapGrid as a function: steps per bar and columns of its argument
MaxStepsPerBar == 4
MaxRemapCols == 4
\* the grid store: cells the user clicks are in the first MaxClickIdx columns
\* or in the last column, and a click turns a cell on while fewer than
\* MaxStoreHits cells are on
MaxClickIdx == 2
MaxStoreHits == 2
\* the engine: the audio clock runs MaxClockSteps steps of 25 ms, at most MaxPending play()
\* calls wait for the context at a time, setTransport is called at most
\* MaxTransportCalls times and play() at most MaxPlayCalls times
MaxClockSteps == 5
MaxPending == 2
MaxTransportCalls == 1
MaxPlayCalls == 2
MaxSessionSteps == 6

\* ------------------------------------------------- program constants
\* INSTRUMENTS, cut to its first two entries
INSTRUMENTS == <<"kick", "snare">>
InstIds == {INSTRUMENTS[i] : i \in 1..Len(INSTRUMENTS)}
VELOCITY_CYCLE == <<0, 100>>
Resolutions == {4, 8, 16}
\* the resolutions chosen in the grid store's select
StoreResolutions == {4, 8}
\* the time signatures the App's select offers
UiTimeSigs == {[n |-> 4, d |-> 4], [n |-> 3, d |-> 4], [n |-> 6, d |-> 8]}
\* denominators drawn for the transcription's time signature
Denominators == {4, 5, 8}
\* what reading an array past its end gives
Undefined == -1
\* engine.js, in units of 2.5 ms: lookaheadMs = 25, scheduleAheadTimeSec = 0.12,
\* the 0.03 s added to currentTime by play()
lookaheadMs == 10
scheduleAheadTimeSec == 48
InitialOffset == 12
\* a minute, in units of 2.5 ms
Minute == 60 * 400
\* tempos and resolutions passed to setTransport
Bpms == {120, 240}
EngineResolutions == {8, 16}
\* the pairs passed to setTransport: at bpm 120 and resolution 8 the second
\* step of a session (0.28 s after play()) lies beyond the clock's range
Transports == (Bpms \X EngineResolutions) \ {<<120, 8>>}
\* the number Infinity, which setTransport takes as a bpm (typeof "number")
Infinity == 1000000
\* tempos of the sessions whose poll ticks are followed one by one
TickBpms == {60, 120, 240, Infinity}
\* how far the audio clock has moved when a late interval callback runs
LateSteps == {10, 30}
\* how far the audio clock moves between two tasks
ClockSteps == {10}
\* startStep values passed to play()
StartSteps == {-1, 1}

\* ------------------------------------------------------------ helpers
Max2(a, b) == IF a >= b THEN a ELSE b
Min2(a, b) == IF a <= b THEN a ELSE b
\* Math.round(num / den) for num >= 0, den > 0: halves round up
MathRound(num, den) == (2 * num + den) \div (2 * den)
\* arr[idx] of a JS array held as a sequence (idx counts from 0)
At(arr, idx) == IF idx >= 0 /\ idx < Len(arr) THEN arr[idx + 1] ELSE Undefined
\* arr[idx] ?? 0
AtOr0(arr, idx) == IF At(arr, idx) = Undefined THEN 0 ELSE At(arr, idx)
Zeros(len) == [i \in 1..len |-> 0]

computeStepsPerBar(ts, res) == Max2(1, MathRound(ts.n * res, ts.d))
StepsPerBeat(res, ts) == Max2(1, MathRound(res, ts.d))

\* ------------------------------------------------ Notation: one bar
\* keys collected at globalIdx: the instruments whose cell is !== 0
KeysAt(g, globalIdx) == {id \in InstIds : At(g[id], globalIdx) # 0}
hasAnyHitAt(g, absIdx) == \E id \in InstIds : At(g[id], absIdx) # 0
isStepEmpty(g, absIdx) == ~hasAnyHitAt(g, absIdx)

\* faulty variant of NativeDur: the sixteenth case is missing
NativeDurNoSixteenth(res) == IF res = 4 THEN "q" ELSE "8"

\* native duration of a step: "q", "8" or "16"
NativeDur(res) == IF res = 4 THEN "q" ELSE IF res = 8 THEN "8" ELSE "16"

\* faulty variant of MergeNotesBranch: at resolution 16 in x/4 the eighth pattern is
\* tried before the quarter pattern
MergeNotesBranchEighthFirst(g, res, ts, spb, bar, st) ==
  LET stepsPerBeat == StepsPerBeat(res, ts)
      subInBeat == st % stepsPerBeat
      base == bar * spb
  IN IF res = 8 /\ stepsPerBeat = 2 /\ subInBeat = 0 /\ st + 1 < spb
        /\ isStepEmpty(g, base + (st + 1))
     THEN [dur |-> "q", adv |-> 2]
     ELSE IF res = 16 /\ stepsPerBeat = 4 /\ (subInBeat = 0 \/ subInBeat = 2)
             /\ st + 1 < spb /\ isStepEmpty(g, base + (st + 1))
     THEN [dur |-> "8", adv |-> 2]
     ELSE IF res = 16 /\ stepsPerBeat = 4 /\ subInBeat = 0 /\ st + 3 < spb
             /\ isStepEmpty(g, base + (st + 1)) /\ isStepEmpty(g, base + (st + 2))
             /\ isStepEmpty(g, base + (st + 3))
     THEN [dur |-> "q", adv |-> 4]
     ELSE IF res = 16 /\ stepsPerBeat = 2 /\ subInBeat = 0 /\ st + 1 < spb
             /\ isStepEmpty(g, base + (st + 1))
     THEN [dur |-> "8", adv |-> 2]
     ELSE [dur |-> "none", adv |-> 0]

\* faulty variant of MergeNotesBranch: the patterns of two steps are tried without
\* `s + 1 < stepsPerBar`
MergeNotesBranchAcrossBar(g, res, ts, spb, bar, st) ==
  LET stepsPerBeat == StepsPerBeat(res, ts)
      subInBeat == st % stepsPerBeat
      base == bar * spb
  IN IF res = 8 /\ stepsPerBeat = 2 /\ subInBeat = 0
        /\ isStepEmpty(g, base + (st + 1))
     THEN [dur |-> "q", adv |-> 2]
     ELSE IF res = 16 /\ stepsPerBeat = 4 /\ subInBeat = 0 /\ st + 3 < spb
             /\ isStepEmpty(g, base + (st + 1)) /\ isStepEmpty(g, base + (st + 2))
             /\ isStepEmpty(g, base + (st + 3))
     THEN [dur |-> "q", adv |-> 4]
     ELSE IF res = 16 /\ stepsPerBeat = 4 /\ (subInBeat = 0 \/ subInBeat = 2)
             /\ isStepEmpty(g, base + (st + 1))
     THEN [dur |-> "8", adv |-> 2]
     ELSE IF res = 16 /\ stepsPerBeat = 2 /\ subInBeat = 0
             /\ isStepEmpty(g, base + (st + 1))
     THEN [dur |-> "8", adv |-> 2]
     ELSE [dur |-> "none", adv |-> 0]

\* --- Merge NOTES --- (checked when mergeNotes && !isRest): the duration and
\* the advance of the first branch that pushes a note, advance 0 when none does
MergeNotesBranch(g, res, ts, spb, bar, st) ==
  LET stepsPerBeat == StepsPerBeat(res, ts)
      subInBeat == st % stepsPerBeat
      base == bar * spb
  IN IF res = 8 /\ stepsPerBeat = 2 /\ subInBeat = 0 /\ st + 1 < spb
        /\ isStepEmpty(g, base + (st + 1))
     THEN [dur |-> "q", adv |-> 2]
     ELSE IF res = 16 /\ stepsPerBeat = 4 /\ subInBeat = 0 /\ st + 3 < spb
             /\ isStepEmpty(g, base + (st + 1)) /\ isStepEmpty(g, base + (st + 2))
             /\ isStepEmpty(g, base + (st + 3))
     THEN [dur |-> "q", adv |-> 4]
     ELSE IF res = 16 /\ stepsPerBeat = 4 /\ (subInBeat = 0 \/ subInBeat = 2)
             /\ st + 1 < spb /\ isStepEmpty(g, base + (st + 1))
     THEN [dur |-> "8", adv |-> 2]
     ELSE IF res = 16 /\ stepsPerBeat = 2 /\ subInBeat = 0 /\ st + 1 < spb
             /\ isStepEmpty(g, base + (st + 1))
     THEN [dur |-> "8", adv |-> 2]
     ELSE [dur |-> "none", adv |-> 0]

\* faulty variant of MergeRestsBranch: the eighth rest is merged on the beat only, not
\* on its second half (subInBeat = 2)
MergeRestsBranchOnBeatOnly(g, res, ts, spb, bar, st) ==
  LET stepsPerBeat == StepsPerBeat(res, ts)
      subInBeat == st % stepsPerBeat
      base == bar * spb
  IN IF res = 8 /\ stepsPerBeat = 2 /\ subInBeat = 0 /\ st + 1 < spb
        /\ isStepEmpty(g, base + (st + 1))
     THEN [dur |-> "qr", adv |-> 2]
     ELSE IF res = 16 /\ stepsPerBeat = 4 /\ subInBeat = 0 /\ st + 3 < spb
             /\ isStepEmpty(g, base + (st + 1)) /\ isStepEmpty(g, base + (st + 2))
             /\ isStepEmpty(g, base + (st + 3))
     THEN [dur |-> "qr", adv |-> 4]
     ELSE IF res = 16 /\ stepsPerBeat = 4 /\ subInBeat = 0
             /\ st + 1 < spb /\ isStepEmpty(g, base + (st + 1))
     THEN [dur |-> "8r", adv |-> 2]
     ELSE IF res = 16 /\ stepsPerBeat = 2 /\ subInBeat = 0 /\ st + 1 < spb
             /\ isStepEmpty(g, base + (st + 1))
     THEN [dur |-> "8r", adv |-> 2]
     ELSE [dur |-> "none", adv |-> 0]

\* --- Merge RESTS --- (checked when mergeRests && isRest)
MergeRestsBranch(g, res, ts, spb, bar, st) ==
  LET stepsPerBeat == StepsPerBeat(res, ts)
      subInBeat == st % stepsPerBeat
      base == bar * spb
  IN IF res = 8 /\ stepsPerBeat = 2 /\ subInBeat = 0 /\ st + 1 < spb
        /\ isStepEmpty(g, base + (st + 1))
     THEN [dur |-> "qr", adv |-> 2]
     ELSE IF res = 16 /\ stepsPerBeat = 4 /\ subInBeat = 0 /\ st + 3 < spb
             /\ isStepEmpty(g, base + (st + 1)) /\ isStepEmpty(g, base + (st + 2))
             /\ isStepEmpty(g, base + (st + 3))
     THEN [dur |-> "qr", adv |-> 4]
     ELSE IF res = 16 /\ stepsPerBeat = 4 /\ (subInBeat = 0 \/ subInBeat = 2)
             /\ st + 1 < spb /\ isStepEmpty(g, base + (st + 1))
     THEN [dur |-> "8r", adv |-> 2]
     ELSE IF res = 16 /\ stepsPerBeat = 2 /\ subInBeat = 0 /\ st + 1 < spb
             /\ isStepEmpty(g, base + (st + 1))
     THEN [dur |-> "8r", adv |-> 2]
     ELSE [dur |-> "none", adv |-> 0]

\* the rest of the native duration: dur + "r"
NativeRest(res) == IF res = 4 THEN "qr" ELSE IF res = 8 THEN "8r" ELSE "16r"

\* One pass of the while loop at cursor st of bar: the StaveNote pushed (its
\* keys and duration), the advance of the cursor, and the cursor it was read at.
StepEvent(g, res, ts, spb, mNotes, mRests, bar, st) ==
  LET keys == KeysAt(g, bar * spb + st)
      isRest == keys = {}
      mn == IF mNotes /\ ~isRest THEN MergeNotesBranch(g, res, ts, spb, bar, st)
            ELSE [dur |-> "none", adv |-> 0]
      mr == IF mRests /\ isRest THEN MergeRestsBranch(g, res, ts, spb, bar, st)
            ELSE [dur |-> "none", adv |-> 0]
  IN IF mn.adv > 0 THEN [keys |-> keys, dur |-> mn.dur, adv |-> mn.adv, at |-> st]
     ELSE IF mr.adv > 0 THEN [keys |-> {}, dur |-> mr.dur, adv |-> mr.adv, at |-> st]
     ELSE IF isRest THEN [keys |-> {}, dur |-> NativeRest(res), adv |-> 1, at |-> st]
     ELSE [keys |-> keys, dur |-> NativeDur(res), adv |-> 1, at |-> st]

\* ------------------------------------------------------- remapGrid
\* faulty variant of Collide: the cell already written wins (`out[newGlobal] ?? val`)
CollideNullish(cur, val) == IF cur = Undefined THEN val ELSE cur

\* faulty variant of Collide: the last step written wins
CollideLastWins(cur, val) == val

\* Math.max(out[newGlobal] ?? 0, val)
Collide(cur, val) == Max2(IF cur = Undefined THEN 0 ELSE cur, val)

\* faulty variant of RemapTarget: newLocal is not clamped
RemapTargetUnclamped(st, oldStepsPerBar, newStepsPerBar) ==
  MathRound(st * newStepsPerBar, oldStepsPerBar)

\* faulty variant of RemapTarget: the clamp stops one step before the last
RemapTargetShort(st, oldStepsPerBar, newStepsPerBar) ==
  LET newLocal == MathRound(st * newStepsPerBar, oldStepsPerBar)
  IN Max2(0, Min2(newStepsPerBar - 2, newLocal))

\* the step of the new bar that old step st goes to: newLocal, clamped
RemapTarget(st, oldStepsPerBar, newStepsPerBar) ==
  LET newLocal == MathRound(st * newStepsPerBar, oldStepsPerBar)
  IN Min2(newStepsPerBar - 1, Max2(0, newLocal))

\* the two nested loops over b and s for one instrument, from the k-th pair on
\* (k = b * oldStepsPerBar + s), filling out
RECURSIVE RemapFill(_, _, _, _, _, _)
RemapFill(row, out, oldStepsPerBar, newStepsPerBar, nbars, k) ==
  IF k >= nbars * oldStepsPerBar THEN out
  ELSE LET bar == k \div oldStepsPerBar
           st == k % oldStepsPerBar
           oldGlobal == bar * oldStepsPerBar + st
           val == AtOr0(row, oldGlobal)
           newGlobal == bar * newStepsPerBar + RemapTarget(st, oldStepsPerBar, newStepsPerBar)
       IN IF val = 0
          THEN RemapFill(row, out, oldStepsPerBar, newStepsPerBar, nbars, k + 1)
          ELSE RemapFill(row, [out EXCEPT ![newGlobal + 1] = Collide(At(out, newGlobal), val)],
                         oldStepsPerBar, newStepsPerBar, nbars, k + 1)

\* remapGrid(prevGrid, oldStepsPerBar, newStepsPerBar), with the bars it closes over
remapGrid(prev, oldStepsPerBar, newStepsPerBar, nbars) ==
  [id \in InstIds |->
     RemapFill(prev[id], Zeros(nbars * newStepsPerBar), oldStepsPerBar, newStepsPerBar, nbars, 0)]

\* faulty variant of ResizeGrid: the sequences are cut and padded at their start, the
\* last cells staying last
ResizeGridFromEnd(prev, cols) ==
  [id \in InstIds |-> [i \in 1..cols |-> AtOr0(prev[id], i - 1 + Len(prev[id]) - cols)]]

\* the resize effect's updater: Array(columns).fill(0).map((_, idx) => prev[id]?.[idx] ?? 0)
ResizeGrid(prev, cols) == [id \in InstIds |-> [i \in 1..cols |-> AtOr0(prev[id], i - 1)]]

\* faulty variant of NextVelocity: the cycle does not wrap, its last value stays
NextVelocityNoWrap(current) ==
  LET n == IF \E i \in 1..Len(VELOCITY_CYCLE) : VELOCITY_CYCLE[i] = current
           THEN CHOOSE i \in 1..Len(VELOCITY_CYCLE) : VELOCITY_CYCLE[i] = current
           ELSE 0
  IN VELOCITY_CYCLE[Min2(n + 1, Len(VELOCITY_CYCLE))]

\* cycleVelocity's next value: VELOCITY_CYCLE[(indexOf(current) + 1) % length]
IndexOf(cycle, v) ==
  IF \E i \in 1..Len(cycle) : cycle[i] = v
  THEN (CHOOSE i \in 1..Len(cycle) : cycle[i] = v /\ \A j \in 1..(i - 1) : cycle[j] # v) - 1
  ELSE -1
NextVelocity(current) ==
  VELOCITY_CYCLE[((IndexOf(VELOCITY_CYCLE, current) + 1) % Len(VELOCITY_CYCLE)) + 1]

\* cycleVelocity's updater: {...prev, [inst]: prev[inst].map((v, i) => i === idx ? nextVal : v)}
CycleUpdate(prev, inst, idx) ==
  LET current == At(prev[inst], idx)
      nextVal == NextVelocity(current)
  IN [prev EXCEPT ![inst] = [i \in 1..Len(prev[inst]) |->
                               IF i - 1 = idx THEN nextVal ELSE prev[inst][i]]]

\* ------------------------------------------------------------ state
VARIABLES
  \* App (useState)
  resolution, bars, timeSig, keepTiming, mergeRests, mergeNotes, grid,
  \* the columns value the resize effect last ran for (its dependency array)
  effectColumns,
  \* history of the grid: the grid as it was when the last handler changed
  \* resolution, time signature or bar count with keep timing off (a grid of
  \* no columns when the last handler did something else)
  gridBefore,
  \* Notation's effect: bar index b, cursor s, notes pushed for the bar
  barIdx, cursor, notes,
  \* remapGrid called as a function: its arguments and its result
  prevGrid, oldSPB, newSPB, remapped,
  \* makeAudioEngine: the context ("null", "suspended", "running") and its
  \* currentTime, the transport, the scheduler state, buffers, onStep (set or not)
  audioCtx, clock, isPlaying, bpm, engResolution, currentStep, nextNoteTime, timerId,
  buffers, onStep,
  \* the platform: active intervals and when the next callback is due; play()
  \* calls suspended at `await resumeIfNeeded()`; the scheduler call in progress
  timers, timerDue, pending, tick, snapColumns,
  \* what getGridSnapshot returns
  liveGrid,
  \* history of the session: the clock when play() started it, the index k of
  \* the last step scheduled in it (-1: none yet), the time given to that step,
  \* whether bpm and resolution stayed as they were, the setTransport and play()
  \* calls made
  playClock, lastK, lastTime, steady, transportCalls, playCalls,
  \* history of stop(): whether playback was stopped and the clock has not
  \* moved since, whether a step was handed over while stopped since the last
  \* stop(), whether a play() called before a stop() started playback after it,
  \* and the steps handed over whose start time is not yet reached (k, start
  \* time, old: handed over by an earlier session)
  justStopped, handoffAfterStop, staleStart, handed,
  \* history of the session's steps: the startStep and the snapshot's columns
  \* of the play() that started it (kept until the session's second step is
  \* scheduled), the step index of the last step scheduled
  \* (-1: none yet), whether the snapshot's columns stayed as they were, whether
  \* a step index outside the snapshot's columns was scheduled, the step index
  \* of the session's first step (-1: none yet), and whether the last call that
  \* ran was redundant ("play": a play() resumed while playing, "stop": a stop()
  \* while stopped, "none" otherwise)
  startArg, startColumns, lastStep, colsSteady, outOfGrid, firstStep, lastCall,
  \* whether a redundant play() or stop() changed the scheduler's state, and
  \* whether a step with a missing buffer went other than a step without one
  noopBroken, skipBroken

appVars == <<resolution, bars, timeSig, keepTiming, mergeRests, mergeNotes, grid, effectColumns,
             gridBefore>>
notationVars == <<barIdx, cursor, notes>>
remapVars == <<prevGrid, oldSPB, newSPB, remapped>>
engineCore == <<audioCtx, clock, isPlaying, bpm, engResolution, currentStep, nextNoteTime,
                timerId, buffers, onStep, timers, timerDue, pending, tick, snapColumns, liveGrid>>
engineHist == <<playClock, lastK, lastTime, steady, transportCalls, playCalls, justStopped,
                handoffAfterStop, staleStart, handed>>
engineSess == <<startArg, startColumns, lastStep, colsSteady, outOfGrid, firstStep, lastCall,
                noopBroken, skipBroken>>
engineVars == <<engineCore, engineHist, engineSess>>

stepsPerBar == Max2(1, MathRound(timeSig.n * resolution, timeSig.d))
columns == bars * stepsPerBar

\* number of nonzero cells of a grid
Hits(g) == Cardinality(UNION {{<<id, i>> : i \in {x \in 1..Len(g[id]) : g[id][x] # 0}} : id \in InstIds})

VelocityValues == {VELOCITY_CYCLE[i] : i \in 1..Len(VELOCITY_CYCLE)}
GridsOf(len, vals) == {g \in [InstIds -> [1..len -> vals]] : Hits(g) <= MaxHits}

vars == <<appVars, notationVars, remapVars, engineVars>>

NoRemap == <<>>
NoGridBefore == [id \in InstIds |-> <<>>]
RemapIdle == prevGrid = NoRemap /\ oldSPB = 0 /\ newSPB = 0 /\ remapped = NoRemap

\* the engine as makeAudioEngine() returns it
EngineFresh ==
  /\ audioCtx = "null" /\ clock = 0 /\ isPlaying = FALSE
  /\ bpm = 120 /\ engResolution = 16
  /\ currentStep = 0 /\ nextNoteTime = 0 /\ timerId = 0
  /\ timers = {} /\ timerDue = 0 /\ pending = <<>> /\ tick = "idle" /\ snapColumns = 0
  /\ playClock = 0 /\ lastK = -1 /\ lastTime = 0 /\ steady = TRUE /\ transportCalls = 0
  /\ playCalls = 0
  /\ justStopped = FALSE /\ handoffAfterStop = FALSE /\ staleStart = FALSE /\ handed = {}
  /\ startArg = 0 /\ startColumns = 0 /\ lastStep = -1 /\ colsSteady = TRUE
  /\ outOfGrid = FALSE /\ firstStep = -1 /\ lastCall = "none"
  /\ noopBroken = FALSE /\ skipBroken = FALSE

EngineIdle ==
  /\ EngineFresh
  /\ buffers = {} /\ onStep = FALSE /\ liveGrid = [id \in InstIds |-> <<>>]

\* ------------------------------------------- Notation (transcription)
NotationIdle == barIdx = 0 /\ cursor = 0 /\ notes = <<>>

\* the props Notation is rendered with: any resolution, time signature, bar
\* count, toggles and grid of bars * stepsPerBar columns
NotationInit ==
  /\ resolution \in Resolutions
  /\ timeSig \in [n : 1..MaxNum, d : Denominators] \cup UiTimeSigs
  /\ bars \in 1..MaxBars
  /\ columns <= MaxCols
  /\ mergeRests \in BOOLEAN
  /\ mergeNotes \in BOOLEAN
  /\ keepTiming = TRUE
  /\ grid \in GridsOf(columns, VelocityValues)
  /\ effectColumns = columns
  /\ gridBefore = NoGridBefore
  /\ NotationIdle
  /\ RemapIdle
  /\ EngineIdle

\* one pass of `while (s < stepsPerBar)`
NotationStep ==
  /\ barIdx < bars
  /\ cursor < stepsPerBar
  /\ LET ev == StepEvent(grid, resolution, timeSig, stepsPerBar, mergeNotes, mergeRests, barIdx, cursor)
     IN /\ notes' = Append(notes, ev)
        /\ cursor' = cursor + ev.adv
  /\ UNCHANGED <<barIdx, appVars, remapVars, engineVars>>

\* the bar's loop ends: its notes go into a Voice and the next bar starts
NotationBarDone ==
  /\ barIdx < bars
  /\ cursor >= stepsPerBar
  /\ barIdx' = barIdx + 1
  /\ cursor' = 0
  /\ notes' = <<>>
  /\ UNCHANGED <<appVars, remapVars, engineVars>>

NotationNext == NotationStep \/ NotationBarDone

SpecNotation == NotationInit /\ [][NotationNext]_vars

\* ------------------------------------------------- claims: Notation
\* duration of an event in sixteenths of a whole note, rests counted like notes
DurSixteenths(dur) ==
  IF dur \in {"q", "qr"} THEN 4 ELSE IF dur \in {"8", "8r"} THEN 2 ELSE 1

RECURSIVE SumDur(_)
SumDur(evs) == IF evs = <<>> THEN 0 ELSE DurSixteenths(Head(evs).dur) + SumDur(Tail(evs))

\* the bar barIdx has been transcribed to its end
BarFinished == barIdx < bars /\ cursor >= stepsPerBar

\* C1 (as stated): for every resolution, every time signature of positive
\* integers, every bar count and grid and toggle setting, the events of each
\* transcribed bar sum to numerator/denominator whole notes
\* (sum/16 = n/d, i.e. sum * d = 16 * n).
C1_DurationSumEveryTimeSig ==
  BarFinished => SumDur(notes) * timeSig.d = 16 * timeSig.n

\* C1 (amended): the same, for the time signatures whose bar is a whole number
\* of steps at the resolution (denominator divides numerator * resolution).
C1_DurationSumWholeSteps ==
  (BarFinished /\ (timeSig.n * resolution) % timeSig.d = 0)
    => SumDur(notes) * timeSig.d = 16 * timeSig.n

\* a bar of a UI time signature transcribed with at least one merged event
C1_Witness ==
  /\ BarFinished
  /\ (timeSig.n * resolution) % timeSig.d = 0
  /\ timeSig \in UiTimeSigs
  /\ \E i \in 1..Len(notes) : notes[i].adv > 1
  /\ \E i \in 1..Len(notes) : notes[i].keys # {}

\* "the next k steps are empty": the k steps that follow st in the bar being
\* transcribed exist and no instrument has a hit in any of them
NextStepsEmpty(bar, st, k) ==
  \A j \in 1..k :
    /\ st + j < stepsPerBar
    /\ \A id \in InstIds : grid[id][bar * stepsPerBar + st + j + 1] = 0

\* the merge rules in the order the claim gives them, first match wins;
\* <<"q", 4>> is a quarter that advances the cursor by 4
RuleOutcome(bar, st, merge) ==
  LET stepsPerBeat == Max2(1, MathRound(resolution, timeSig.d))
      subInBeat == st % stepsPerBeat
  IN IF ~merge THEN <<NativeDur(resolution), 1>>
     ELSE IF resolution = 16 /\ stepsPerBeat = 4 /\ subInBeat = 0 /\ NextStepsEmpty(bar, st, 3)
     THEN <<"q", 4>>
     ELSE IF resolution = 16 /\ stepsPerBeat = 4 /\ subInBeat \in {0, 2} /\ NextStepsEmpty(bar, st, 1)
     THEN <<"8", 2>>
     ELSE IF resolution = 8 /\ stepsPerBeat = 2 /\ subInBeat = 0 /\ NextStepsEmpty(bar, st, 1)
     THEN <<"q", 2>>
     ELSE IF resolution = 16 /\ stepsPerBeat = 2 /\ subInBeat = 0 /\ NextStepsEmpty(bar, st, 1)
     THEN <<"8", 2>>
     ELSE <<NativeDur(resolution), 1>>

\* C9: every note pushed for the bar has the duration and the cursor advance of
\* the first matching merge-note rule (quarter/4, eighth/2 at resolution 16 in
\* x/4; quarter/2 at resolution 8 in x/4; eighth/2 at resolution 16 in x/8), and
\* native duration with advance 1 when no rule matches or mergeNotes is off. In
\* x/4 at resolution 8 a lone hit on a beat is one quarter with mergeNotes on,
\* and an eighth followed by an eighth rest with it off.
C9_MergeNoteRules ==
  /\ \A i \in 1..Len(notes) :
       notes[i].keys # {} =>
         <<notes[i].dur, notes[i].adv>> = RuleOutcome(barIdx, notes[i].at, mergeNotes)
  /\ \A i \in 1..Len(notes) :
       (/\ resolution = 8 /\ timeSig.d = 4 /\ notes[i].keys # {} /\ notes[i].at % 2 = 0
        /\ isStepEmpty(grid, barIdx * stepsPerBar + notes[i].at + 1))
       => IF mergeNotes
          THEN notes[i].dur = "q" /\ notes[i].adv = 2
          ELSE /\ notes[i].dur = "8" /\ notes[i].adv = 1
               /\ (i < Len(notes) => notes[i + 1].dur = "8r" /\ notes[i + 1].adv = 1)

\* notes merged by the quarter rule and by an eighth rule were pushed, at
\* resolution 16 in x/4, in a bar that also holds an unmerged note
C9_Witness ==
  /\ mergeNotes /\ resolution = 16 /\ timeSig.d = 4 /\ BarFinished
  /\ \E i \in 1..Len(notes) : notes[i].keys # {} /\ notes[i].dur = "8" /\ notes[i].at % 4 = 2
  /\ \E i \in 1..Len(notes) : notes[i].keys # {} /\ notes[i].dur = "16"

\* the example of C9 with mergeNotes on: 3/4 at resolution 8, a lone hit on
\* beat 1 became a quarter
C9_WitnessExample ==
  /\ mergeNotes /\ resolution = 8 /\ timeSig = [n |-> 3, d |-> 4] /\ BarFinished
  /\ notes[1].keys # {} /\ notes[1].dur = "q" /\ notes[1].adv = 2

\* the grid with a kick written into the cell of step st of bar
WithHit(bar, st) ==
  [grid EXCEPT !["kick"][bar * stepsPerBar + st + 1] = 100]

RestClass(dur) == IF dur = "q" THEN "qr" ELSE IF dur = "8" THEN "8r" ELSE "16r"

\* C10: with mergeNotes and mergeRests on, a rest pushed at a cursor consumes
\* the steps and has the rest class of the duration that a note at the same
\* cursor has when the steps after it are unchanged; with mergeRests off every
\* rest is one native-duration rest that advances the cursor by 1. In x/4 at
\* resolution 16 an empty beat is one quarter rest with mergeRests on and four
\* sixteenth rests with it off.
C10_MergeRestsMirror ==
  \A i \in 1..Len(notes) :
    notes[i].keys = {} =>
      /\ (mergeNotes /\ mergeRests) =>
           LET asNote == StepEvent(WithHit(barIdx, notes[i].at), resolution, timeSig,
                                   stepsPerBar, mergeNotes, mergeRests, barIdx, notes[i].at)
           IN /\ asNote.keys # {}
              /\ notes[i].adv = asNote.adv
              /\ notes[i].dur = RestClass(asNote.dur)
      /\ ~mergeRests => notes[i].adv = 1 /\ notes[i].dur = NativeRest(resolution)
      /\ (/\ resolution = 16 /\ timeSig.d = 4 /\ notes[i].at % 4 = 0
          /\ NextStepsEmpty(barIdx, notes[i].at, 3))
         => IF mergeRests THEN notes[i].dur = "qr" /\ notes[i].adv = 4
            ELSE \A j \in i..Min2(i + 3, Len(notes)) :
                   notes[j].dur = "16r" /\ notes[j].at = notes[i].at + (j - i)

\* a quarter rest merged from the four empty sixteenths of a beat, and an
\* eighth rest merged on the second half of a beat
C10_Witness ==
  /\ mergeNotes /\ mergeRests /\ resolution = 16 /\ timeSig.d = 4 /\ BarFinished
  /\ \E i \in 1..Len(notes) : notes[i].dur = "8r" /\ notes[i].at % 4 = 2
  /\ \E i \in 1..Len(notes) : notes[i].dur = "16"

\* the example of C10: an empty beat at resolution 16 in x/4 became four
\* sixteenth rests with mergeRests off
C10_WitnessExampleOff ==
  /\ ~mergeRests /\ resolution = 16 /\ timeSig.d = 4 /\ BarFinished
  /\ Len(notes) = 4 /\ \A i \in 1..4 : notes[i].dur = "16r"

\* the example of C10: an empty beat became one quarter rest with mergeRests on
C10_WitnessExampleOn ==
  /\ mergeRests /\ resolution = 16 /\ timeSig.d = 4 /\ BarFinished
  /\ Len(notes) = 1 /\ notes[1].dur = "qr" /\ notes[1].adv = 4

\* the grid indexes a merge section passes to isStepEmpty at cursor st of bar
\* (`&&` and the nested ifs evaluate from the left and stop at the first false)
MergeReads(g, res, ts, spb, bar, st) ==
  LET stepsPerBeat == StepsPerBeat(res, ts)
      subInBeat == st % stepsPerBeat
      base == bar * spb
      a == base + (st + 1)
      b2 == base + (st + 2)
      c == base + (st + 3)
      two == IF st + 1 < spb THEN {a} ELSE {}
  IN IF res = 8 /\ stepsPerBeat = 2 /\ subInBeat = 0 THEN two
     ELSE IF res = 16 /\ stepsPerBeat = 4
     THEN (IF subInBeat = 0 /\ st + 3 < spb
           THEN {a} \cup (IF isStepEmpty(g, a)
                          THEN {b2} \cup (IF isStepEmpty(g, b2) THEN {c} ELSE {})
                          ELSE {})
           ELSE {})
          \cup (IF subInBeat = 0 \/ subInBeat = 2 THEN two ELSE {})
     ELSE IF res = 16 /\ stepsPerBeat = 2 /\ subInBeat = 0 THEN two
     ELSE {}

\* every grid index read by one pass of the while loop at cursor st of bar
ReadIndexes(g, res, ts, spb, mNotes, mRests, bar, st) ==
  LET globalIdx == bar * spb + st
      isRest == KeysAt(g, globalIdx) = {}
  IN {globalIdx} \cup (IF (mNotes /\ ~isRest) \/ (mRests /\ isRest)
                       THEN MergeReads(g, res, ts, spb, bar, st) ELSE {})

\* the grids that differ from the grid in one cell outside the bar, or in every
\* cell outside the bar (0 becomes 100, a hit becomes 0)
Flip(v) == IF v = 0 THEN 100 ELSE 0
InBar(bar, idx) == bar * stepsPerBar <= idx /\ idx < (bar + 1) * stepsPerBar
OtherBarGrids(bar) ==
  {[id \in InstIds |-> [i \in 1..Len(grid[id]) |->
      IF id = cell[1] /\ i = cell[2] THEN Flip(grid[id][i]) ELSE grid[id][i]]] :
     cell \in {x \in InstIds \X (1..columns) : ~InBar(bar, x[2] - 1)}}
  \cup {[id \in InstIds |-> [i \in 1..Len(grid[id]) |->
      IF InBar(bar, i - 1) THEN grid[id][i] ELSE Flip(grid[id][i])]]}

\* C11: while bar b is transcribed every grid index read lies in
\* [b*stepsPerBar, (b+1)*stepsPerBar - 1], the cursor never passes stepsPerBar,
\* and every event of the bar is the same when cells of other bars are changed,
\* for every resolution, time signature and toggle setting.
C11_NoLookAcrossBar ==
  /\ cursor <= stepsPerBar
  /\ \A i \in 1..Len(notes) :
       /\ \A idx \in ReadIndexes(grid, resolution, timeSig, stepsPerBar, mergeNotes,
                                  mergeRests, barIdx, notes[i].at) : InBar(barIdx, idx)
       /\ notes[i].at + notes[i].adv <= stepsPerBar
       /\ \A g2 \in OtherBarGrids(barIdx) :
            StepEvent(g2, resolution, timeSig, stepsPerBar, mergeNotes, mergeRests,
                      barIdx, notes[i].at) = notes[i]

\* the first of two bars was transcribed to its end; its last step holds a hit,
\* starts a beat (stepsPerBar is no multiple of stepsPerBeat) and the step
\* after it, the first of the next bar, is empty
C11_Witness ==
  /\ BarFinished /\ barIdx = 0 /\ bars = 2 /\ mergeNotes
  /\ StepsPerBeat(resolution, timeSig) = 2
  /\ stepsPerBar % 2 = 1
  /\ notes[Len(notes)].at = stepsPerBar - 1
  /\ notes[Len(notes)].keys # {}
  /\ isStepEmpty(grid, stepsPerBar)

\* ------------------------------------------- remapGrid as a function
\* velocities of the grids remapGrid is applied to (0..127 in the interface)
RemapVelocities == {0, 60, 100}

AppIdle ==
  /\ resolution = 8 /\ timeSig = [n |-> 4, d |-> 4]
  /\ keepTiming = TRUE /\ mergeRests = TRUE /\ mergeNotes = TRUE
  /\ grid = [id \in InstIds |-> <<>>] /\ effectColumns = 0
  /\ gridBefore = NoGridBefore

\* any grid of bars * oldSPB columns, any old and new steps per bar
RemapInit ==
  /\ bars \in 1..MaxBars
  /\ oldSPB \in 1..MaxStepsPerBar
  /\ newSPB \in 1..MaxStepsPerBar
  /\ bars * oldSPB <= MaxRemapCols
  /\ prevGrid \in [InstIds -> [1..(bars * oldSPB) -> RemapVelocities]]
  /\ remapped = NoRemap
  /\ AppIdle
  /\ NotationIdle
  /\ EngineIdle

RemapCall ==
  /\ remapped = NoRemap
  /\ remapped' = remapGrid(prevGrid, oldSPB, newSPB, bars)
  /\ UNCHANGED <<prevGrid, oldSPB, newSPB, appVars, notationVars, engineVars>>

SpecRemap == RemapInit /\ [][RemapCall]_vars

\* C7: remapGrid with newStepsPerBar = oldStepsPerBar returns the grid it was
\* given, cell for cell, for every grid of bars * n columns.
C7_IdentityRemap ==
  (remapped # NoRemap /\ oldSPB = newSPB) => remapped = prevGrid

\* an identity remap of a two-bar grid holding two different velocities
C7_Witness ==
  /\ remapped # NoRemap /\ oldSPB = newSPB /\ bars = 2 /\ oldSPB = 2
  /\ prevGrid["kick"] = <<100, 60, 0, 100>>
  /\ remapped = prevGrid

\* the new step the claim sends old step st to: clamp(round(st*new/old), 0, new-1)
ClaimTarget(st) ==
  LET r == (2 * st * newSPB + oldSPB) \div (2 * oldSPB)
  IN IF r > newSPB - 1 THEN newSPB - 1 ELSE IF r < 0 THEN 0 ELSE r

\* the largest member of a nonempty set of numbers
SetMax(S) == CHOOSE m \in S : \A x \in S : x <= m

\* C8: after a remap, the velocity at new step j of bar b of an instrument is
\* the maximum of the velocities of the old steps of that bar that map to j,
\* and 0 when no nonzero old step maps to j.
C8_CollisionKeepsMax ==
  remapped # NoRemap =>
    \A id \in InstIds : \A bar \in 0..(bars - 1) : \A j \in 0..(newSPB - 1) :
      remapped[id][bar * newSPB + j + 1] =
        SetMax({0} \cup {prevGrid[id][bar * oldSPB + st + 1] :
                           st \in {x \in 0..(oldSPB - 1) : ClaimTarget(x) = j}})

\* two adjacent active steps collapsed into one new step, the louder one
\* first, and the new step holds the louder velocity
C8_Witness ==
  /\ remapped # NoRemap /\ newSPB < oldSPB
  /\ \E id \in InstIds : \E st \in 0..(oldSPB - 2) :
       /\ ClaimTarget(st) = ClaimTarget(st + 1)
       /\ prevGrid[id][st + 1] = 100 /\ prevGrid[id][st + 2] = 60
       /\ remapped[id][ClaimTarget(st) + 1] = 100

\* the same with the quieter one first
C8_WitnessQuietFirst ==
  /\ remapped # NoRemap /\ newSPB < oldSPB
  /\ \E id \in InstIds : \E st \in 0..(oldSPB - 2) :
       /\ ClaimTarget(st) = ClaimTarget(st + 1)
       /\ prevGrid[id][st + 1] = 60 /\ prevGrid[id][st + 2] = 100
       /\ remapped[id][ClaimTarget(st) + 1] = 100

\* the cells of bar `bar` of a row of spb steps per bar that hold velocity v
CellsWith(row, spb, bar, v) == {st \in 0..(spb - 1) : row[bar * spb + st + 1] = v}

\* C15: when newStepsPerBar >= oldStepsPerBar, remapGrid sends distinct old
\* steps of a bar to distinct new steps, and every instrument has in every bar
\* as many cells of each nonzero velocity after the remap as before it (and
\* no cell of another velocity).
C15_ExpandNoCollision ==
  (remapped # NoRemap /\ newSPB >= oldSPB) =>
    /\ \A s1, s2 \in 0..(oldSPB - 1) :
         s1 # s2 => RemapTarget(s1, oldSPB, newSPB) # RemapTarget(s2, oldSPB, newSPB)
    /\ \A id \in InstIds : \A bar \in 0..(bars - 1) :
         /\ \A j \in 0..(newSPB - 1) : remapped[id][bar * newSPB + j + 1] \in RemapVelocities
         /\ \A v \in RemapVelocities \ {0} :
              Cardinality(CellsWith(remapped[id], newSPB, bar, v))
                = Cardinality(CellsWith(prevGrid[id], oldSPB, bar, v))

\* a grid of two bars whose every cell holds a hit, of two velocities in each
\* bar, was remapped to more steps per bar
C15_Witness ==
  /\ remapped # NoRemap /\ newSPB > oldSPB /\ bars = 2 /\ oldSPB = 2
  /\ prevGrid["kick"] = <<100, 60, 60, 100>>
  /\ Cardinality(CellsWith(remapped["kick"], newSPB, 1, 0)) = newSPB - oldSPB

\* whether bar `bar` of a row of spb steps per bar holds a nonzero cell
BarHasHit(row, spb, bar) == \E st \in 0..(spb - 1) : At(row, bar * spb + st) # 0

\* C22: remapGrid returns for every instrument a sequence of bars *
\* newStepsPerBar cells in which a bar holds a nonzero cell exactly when the
\* same bar of the grid it was given holds one for that instrument: no hit
\* leaves its bar and no bar loses all its hits. The grid it was given stays
\* as it was.
C22_StateHitsStayInBar ==
  remapped # NoRemap =>
    \A id \in InstIds :
      /\ Len(remapped[id]) = bars * newSPB
      /\ \A bar \in 0..(bars - 1) :
           BarHasHit(remapped[id], newSPB, bar) <=> BarHasHit(prevGrid[id], oldSPB, bar)
C22_HitsStayInBar ==
  /\ []C22_StateHitsStayInBar
  /\ [][prevGrid' = prevGrid]_vars

\* the only hit of an instrument stood on the last step of the first of two
\* bars and its rounded target was the first step of the second bar: the hit
\* is on the last step of the first bar, the second bar is empty
C22_Witness ==
  /\ remapped # NoRemap /\ bars = 2 /\ oldSPB = 2 /\ newSPB = 1
  /\ prevGrid["kick"] = <<0, 100, 0, 0>>
  /\ remapped["kick"] = <<100, 0>>

\* ------------------------------------------------------ the grid store
\* useState initial values; the grid is zero-filled with the initial columns
StoreInit ==
  /\ resolution = 8
  /\ bars = 2
  /\ timeSig = [n |-> 4, d |-> 4]
  /\ keepTiming = TRUE
  /\ mergeRests = TRUE
  /\ mergeNotes = TRUE
  /\ grid = [id \in InstIds |-> Zeros(16)]
  /\ effectColumns = 16
  /\ gridBefore = NoGridBefore
  /\ NotationIdle
  /\ RemapIdle
  /\ EngineIdle

\* an event handler runs once the effects of the last render have run
EffectsFlushed == effectColumns = columns

handleResolutionChange(newRes) ==
  /\ EffectsFlushed
  /\ newRes # resolution
  /\ IF ~keepTiming
     THEN grid' = grid
     ELSE grid' = remapGrid(grid, stepsPerBar, computeStepsPerBar(timeSig, newRes), bars)
  /\ resolution' = newRes
  /\ gridBefore' = (IF ~keepTiming THEN grid ELSE NoGridBefore)
  /\ UNCHANGED <<bars, timeSig, keepTiming, mergeRests, mergeNotes, effectColumns,
                 notationVars, remapVars, engineVars>>

handleTimeSigChange(newTS) ==
  /\ EffectsFlushed
  /\ newTS # timeSig
  /\ IF ~keepTiming
     THEN grid' = grid
     ELSE grid' = remapGrid(grid, stepsPerBar, computeStepsPerBar(newTS, resolution), bars)
  /\ timeSig' = newTS
  /\ gridBefore' = (IF ~keepTiming THEN grid ELSE NoGridBefore)
  /\ UNCHANGED <<resolution, bars, keepTiming, mergeRests, mergeNotes, effectColumns,
                 notationVars, remapVars, engineVars>>

\* the Bars input: setBars(Number(e.target.value))
setBars(newBars) ==
  /\ EffectsFlushed
  /\ newBars # bars
  /\ bars' = newBars
  /\ gridBefore' = (IF ~keepTiming THEN grid ELSE NoGridBefore)
  /\ UNCHANGED <<resolution, timeSig, keepTiming, mergeRests, mergeNotes, grid,
                 effectColumns, notationVars, remapVars, engineVars>>

setKeepTiming ==
  /\ EffectsFlushed
  /\ keepTiming' = ~keepTiming
  /\ gridBefore' = NoGridBefore
  /\ UNCHANGED <<resolution, bars, timeSig, mergeRests, mergeNotes, grid, effectColumns,
                 notationVars, remapVars, engineVars>>

\* a click on the cell idx of instrument inst
cycleVelocity(inst, idx) ==
  /\ EffectsFlushed
  /\ idx >= 0 /\ idx < columns
  /\ (grid[inst][idx + 1] = 0 => Hits(grid) < MaxStoreHits)
  /\ grid' = CycleUpdate(grid, inst, idx)
  /\ gridBefore' = NoGridBefore
  /\ UNCHANGED <<resolution, bars, timeSig, keepTiming, mergeRests, mergeNotes,
                 effectColumns, notationVars, remapVars, engineVars>>

\* useEffect(..., [columns]): runs after a render in which columns changed
ResizeEffect ==
  /\ effectColumns # columns
  /\ grid' = ResizeGrid(grid, columns)
  /\ effectColumns' = columns
  /\ UNCHANGED <<resolution, bars, timeSig, keepTiming, mergeRests, mergeNotes, gridBefore,
                 notationVars, remapVars, engineVars>>

ClickIdx == (0..(MaxClickIdx - 1)) \cup {columns - 1}

StoreNext ==
  \/ \E newRes \in StoreResolutions : handleResolutionChange(newRes)
  \/ \E newTS \in UiTimeSigs : handleTimeSigChange(newTS)
  \/ \E newBars \in 1..MaxBars : setBars(newBars)
  \/ setKeepTiming
  \/ \E inst \in InstIds : \E idx \in ClickIdx : cycleVelocity(inst, idx)
  \/ ResizeEffect

SpecStore == StoreInit /\ [][StoreNext]_vars

\* C6: in every state of the grid store, the states between a parameter change
\* and the resize that follows it included, every instrument's sequence has
\* length columns = bars * stepsPerBar of the current parameters.
C6_GridLengthAlways ==
  \A id \in InstIds : Len(grid[id]) = columns

\* C14: when resolution, time signature or bar count changes with keep timing
\* off, then once the resize effect has run every instrument's sequence has
\* the new length, holds at every index below the old length what it held
\* there before the change and 0 at every index from the old length on.
C14_ResizePositional ==
  (EffectsFlushed /\ gridBefore # NoGridBefore) =>
    \A id \in InstIds :
      /\ Len(grid[id]) = columns
      /\ \A i \in 1..columns :
           grid[id][i] = (IF i <= Len(gridBefore[id]) THEN gridBefore[id][i] ELSE 0)

\* a grid was cut with keep timing off: a hit below the new length stayed where
\* it was and a hit beyond it was dropped
C14_Witness ==
  /\ EffectsFlushed /\ gridBefore # NoGridBefore
  /\ \E id \in InstIds :
       /\ Len(gridBefore[id]) > columns
       /\ \E i \in 1..columns : gridBefore[id][i] # 0 /\ grid[id][i] = gridBefore[id][i]
       /\ \E i \in (columns + 1)..Len(gridBefore[id]) : gridBefore[id][i] # 0

\* a grid was lengthened with keep timing off: the hit of its last cell stayed
\* where it was and the new cells hold 0
C14_WitnessLonger ==
  /\ EffectsFlushed /\ gridBefore # NoGridBefore
  /\ \E id \in InstIds :
       /\ Len(gridBefore[id]) < columns
       /\ gridBefore[id][Len(gridBefore[id])] # 0
       /\ grid[id][Len(gridBefore[id])] = gridBefore[id][Len(gridBefore[id])]
       /\ grid[id][columns] = 0

\* C16: in every grid the store reaches by clicks, remaps and resizes, a click
\* on a cell followed by a second click on it gives the grid back, and a click
\* changes the cell clicked and no other cell of any instrument.
C16_CycleTwice ==
  EffectsFlushed =>
    \A inst \in InstIds : \A idx \in 0..(columns - 1) :
      LET once == CycleUpdate(grid, inst, idx)
          twice == CycleUpdate(once, inst, idx)
      IN /\ twice = grid
         /\ once[inst][idx + 1] # grid[inst][idx + 1]
         /\ once = [grid EXCEPT ![inst][idx + 1] = once[inst][idx + 1]]

\* a hit stands on a cell no click of the store reaches, moved there by a remap
\* or kept there by a resize; one click takes it away, a second one puts it back
C16_Witness ==
  /\ EffectsFlushed
  /\ \E idx \in (0..(columns - 1)) \ ClickIdx :
       /\ grid["kick"][idx + 1] = 100
       /\ CycleUpdate(grid, "kick", idx)["kick"][idx + 1] = 0
       /\ CycleUpdate(CycleUpdate(grid, "kick", idx), "kick", idx) = grid

\* ----------------------------------------------------- makeAudioEngine
\* faulty variant of secondsPerStep: a sixteenth where the step is an eighth of a beat
secondsPerStepHalved == ((Minute \div bpm) * 4) \div (2 * engResolution)

\* (60 / bpm) * (4 / resolution), in units of 2.5 ms; 60 / Infinity is 0
secondsPerStep == IF bpm = Infinity THEN 0 ELSE ((Minute \div bpm) * 4) \div engResolution

\* faulty variant of AdvanceNoteTime: the next step is timed from the clock of the poll
AdvanceNoteTimeFromNow(noteTime, now) == now + secondsPerStep

\* nextNoteTime += secondsPerStep()
AdvanceNoteTime(noteTime, now) == noteTime + secondsPerStep

\* snap.columns of the grid getGridSnapshot returns
LiveColumns == Len(liveGrid[INSTRUMENTS[1]])

\* faulty variant of trigger: a missing buffer raises an exception
triggerThrows(instId) == IF instId \notin buffers THEN "threw" ELSE "started"

\* trigger(instId, time, velocity): returns early without a decoded buffer,
\* starts a source at `time` with one
trigger(instId) == IF instId \notin buffers THEN "skipped" ELSE "started"

\* scheduleStep's loop over the instruments from the i-th on: the instruments
\* whose source was started, and whether a trigger call raised an exception
RECURSIVE ScheduleTriggers(_, _, _)
ScheduleTriggers(stepIndex, i, started) ==
  IF i > Len(INSTRUMENTS) THEN [started |-> started, threw |-> FALSE]
  ELSE LET id == INSTRUMENTS[i]
           vel == AtOr0(liveGrid[id], stepIndex)
       IN IF vel > 0
          THEN IF trigger(id) = "threw" THEN [started |-> started, threw |-> TRUE]
               ELSE ScheduleTriggers(stepIndex, i + 1,
                                     IF trigger(id) = "started" THEN started \cup {id}
                                     ELSE started)
          ELSE ScheduleTriggers(stepIndex, i + 1, started)

\* scheduleStep's triggers: the instruments with a velocity > 0 at stepIndex
\* whose buffer is decoded (trigger returns early without one)
Triggered(stepIndex) == ScheduleTriggers(stepIndex, 1, {}).started

\* faulty variant of NextStep: the cursor wraps one step late
NextStepLate(step, cols) == IF step + 1 > cols THEN 0 ELSE step + 1

\* currentStep += 1; if (currentStep >= columns) currentStep = 0
NextStep(step, cols) == IF step + 1 >= cols THEN 0 ELSE step + 1

\* faulty variant of AlreadyPlaying: play() does not test isPlaying
AlreadyPlayingNever == FALSE

\* play(): `if (isPlaying) return`
AlreadyPlaying == isPlaying

\* faulty variant of ClearedTimers: stop() does not clear the interval
ClearedTimersKept == timers

\* stop(): `if (timerId) window.clearInterval(timerId)`
ClearedTimers == IF timerId # 0 THEN timers \ {timerId} ELSE timers

\* the grids played, and the buffers decoded: the kick's sample is decoded,
\* the snare's is missing
EngineGrids ==
  {[kick |-> <<100>>, snare |-> <<0>>], [kick |-> <<100, 0>>, snare |-> <<100, 100>>]}
BufferSets == {{"kick"}}

EngineInit ==
  /\ EngineFresh
  /\ buffers \in BufferSets
  /\ onStep = FALSE
  /\ liveGrid \in EngineGrids
  /\ AppIdle /\ bars = 1
  /\ NotationIdle
  /\ RemapIdle

engineFrame == <<appVars, notationVars, remapVars>>

MarkStale(p) == [i \in 1..Len(p) |-> [p[i] EXCEPT !.stale = TRUE]]

\* the history of a session that has ended
SessionOver ==
  /\ playClock' = 0 /\ lastK' = -1 /\ lastTime' = 0 /\ steady' = TRUE
  /\ startArg' = 0 /\ startColumns' = 0 /\ lastStep' = -1 /\ colsSteady' = TRUE
  /\ outOfGrid' = FALSE /\ firstStep' = -1

sessionTail == <<startArg, startColumns, lastStep, colsSteady, outOfGrid, firstStep>>
sessionHist == <<playClock, lastK, lastTime, steady, startArg, startColumns, lastStep,
                 colsSteady, outOfGrid, firstStep>>

\* the scheduler state a redundant play() leaves alone, and all of the
\* engine's state
schedulerState == <<isPlaying, currentStep, nextNoteTime, timerId, timers>>
engineState == <<audioCtx, isPlaying, bpm, engResolution, currentStep, nextNoteTime, timerId,
                 timers, buffers, onStep>>

\* faulty variant of ClampStart: a negative startStep is not raised to 0
ClampStartNoFloor(startStep, cols) == Min2(Max2(0, cols - 1), startStep)

\* the step play() starts from: startStep clamped to [0, maxStep], where
\* maxStep = max(0, columns - 1)
ClampStart(startStep, cols) ==
  LET maxStep == Max2(0, cols - 1)
  IN Max2(0, Min2(maxStep, startStep))

\* play(), up to `await resumeIfNeeded()`: the context is created if there is
\* none (the platform starts it suspended or running) and resumed if not running
PlayCall(startStep) ==
  /\ tick = "idle"
  /\ Len(pending) < MaxPending
  /\ playCalls < MaxPlayCalls
  /\ playCalls' = playCalls + 1
  /\ audioCtx' \in (IF audioCtx = "null" THEN {"suspended", "running"} ELSE {audioCtx})
  /\ pending' = Append(pending, [start |-> startStep, stale |-> FALSE])
  /\ lastCall' = "none"
  /\ UNCHANGED <<clock, isPlaying, bpm, engResolution, currentStep, nextNoteTime, timerId,
                 buffers, onStep, timers, timerDue, tick, snapColumns, liveGrid,
                 sessionHist, transportCalls, justStopped,
                 handoffAfterStop, staleStart, handed, noopBroken, skipBroken, engineFrame>>

\* audioCtx.resume() resolves
ResumeResolved ==
  /\ tick = "idle"
  /\ audioCtx = "suspended"
  /\ pending # <<>>
  /\ audioCtx' = "running"
  /\ lastCall' = "none"
  /\ UNCHANGED <<clock, isPlaying, bpm, engResolution, currentStep, nextNoteTime, timerId,
                 buffers, onStep, timers, timerDue, pending, tick, snapColumns, liveGrid,
                 engineHist, sessionTail, noopBroken, skipBroken, engineFrame>>

NewTimerId == CHOOSE i \in 1..(Cardinality(timers) + 1) : i \notin timers

\* play(), after the await
PlayResume ==
  /\ tick = "idle"
  /\ pending # <<>>
  /\ audioCtx = "running"
  /\ pending' = Tail(pending)
  /\ lastCall' = (IF isPlaying THEN "play" ELSE "none")
  /\ skipBroken' = skipBroken
  /\ IF AlreadyPlaying
     THEN UNCHANGED <<isPlaying, currentStep, nextNoteTime, timerId, timers, timerDue,
                      engineHist, sessionTail>>
     ELSE LET snapColumnsAtPlay == LiveColumns
          IN /\ currentStep' = ClampStart(Head(pending).start, snapColumnsAtPlay)
             /\ nextNoteTime' = clock + InitialOffset
             /\ isPlaying' = TRUE
             /\ timerId' = NewTimerId
             /\ timers' = timers \cup {NewTimerId}
             /\ timerDue' = clock + lookaheadMs
             /\ playClock' = clock
             /\ lastK' = -1
             /\ lastTime' = 0
             /\ steady' = TRUE
             /\ startArg' = Head(pending).start
             /\ startColumns' = LiveColumns
             /\ lastStep' = -1
             /\ colsSteady' = TRUE
             /\ outOfGrid' = FALSE
             /\ firstStep' = -1
             /\ staleStart' = (staleStart \/ \A i \in 1..Len(pending) : pending[i].stale)
             /\ handed' = {[h EXCEPT !.old = TRUE] : h \in handed}
             /\ UNCHANGED <<transportCalls, playCalls, justStopped, handoffAfterStop>>
  /\ UNCHANGED <<audioCtx, clock, bpm, engResolution, buffers, onStep, tick, snapColumns,
                 liveGrid, engineFrame>>
  /\ noopBroken' = (noopBroken \/ (isPlaying /\ schedulerState' # schedulerState))

\* stop(), called between two tasks; the history of the session ends with it
Stop ==
  /\ tick = "idle"
  /\ lastCall' = (IF isPlaying THEN "none" ELSE "stop")
  /\ skipBroken' = skipBroken
  /\ IF isPlaying
     THEN /\ isPlaying' = FALSE
          /\ timers' = ClearedTimers
          /\ timerId' = 0
          /\ timerDue' = 0
          /\ justStopped' = TRUE
          /\ handoffAfterStop' = FALSE
          /\ SessionOver
     ELSE UNCHANGED <<isPlaying, timers, timerId, timerDue, justStopped, handoffAfterStop,
                      sessionHist>>
  /\ pending' = MarkStale(pending)
  /\ UNCHANGED <<audioCtx, clock, bpm, engResolution, currentStep, nextNoteTime, buffers,
                 onStep, tick, snapColumns, liveGrid, transportCalls, playCalls, staleStart,
                 handed, engineFrame>>
  /\ noopBroken' = (noopBroken \/ (~isPlaying /\ engineState' # engineState))

setTransport(nextBpm, nextResolution) ==
  /\ tick = "idle"
  /\ transportCalls < MaxTransportCalls
  /\ transportCalls' = transportCalls + 1
  /\ <<nextBpm, nextResolution>> # <<bpm, engResolution>>
  /\ bpm' = nextBpm
  /\ engResolution' = nextResolution
  /\ steady' = (steady /\ ~isPlaying)
  /\ lastCall' = "none"
  /\ UNCHANGED <<audioCtx, clock, isPlaying, currentStep, nextNoteTime, timerId, buffers,
                 onStep, timers, timerDue, pending, tick, snapColumns, liveGrid,
                 playClock, lastK, lastTime, playCalls, justStopped, handoffAfterStop,
                 staleStart, handed, sessionTail, noopBroken, skipBroken, engineFrame>>

setOnStep(fn) ==
  /\ tick = "idle"
  /\ fn # onStep
  /\ onStep' = fn
  /\ lastCall' = "none"
  /\ UNCHANGED <<audioCtx, clock, isPlaying, bpm, engResolution, currentStep, nextNoteTime,
                 timerId, buffers, timers, timerDue, pending, tick, snapColumns, liveGrid,
                 engineHist, sessionTail, noopBroken, skipBroken, engineFrame>>

\* the App renders another grid while the engine plays: getGridSnapshot returns
\* it from now on (one change of the grid in a session)
GridChange(g) ==
  /\ tick = "idle"
  /\ g # liveGrid
  /\ isPlaying /\ colsSteady
  /\ liveGrid' = g
  /\ colsSteady' = (colsSteady /\ (~isPlaying \/ Len(g[INSTRUMENTS[1]]) = LiveColumns))
  /\ lastCall' = "none"
  /\ UNCHANGED <<audioCtx, clock, isPlaying, bpm, engResolution, currentStep, nextNoteTime,
                 timerId, buffers, onStep, timers, timerDue, pending, tick, snapColumns,
                 engineHist, startArg, startColumns, lastStep, outOfGrid, firstStep,
                 noopBroken, skipBroken, engineFrame>>

\* the audio clock moves on between two tasks; the continuation of a play()
\* whose context is running is a microtask and runs first
AdvanceClock(d) ==
  /\ tick = "idle"
  /\ audioCtx = "running"
  /\ pending = <<>>
  /\ clock + d <= MaxClockSteps * lookaheadMs
  /\ clock' = clock + d
  /\ handed' = {h \in handed : h.time >= clock + d}
  /\ justStopped' = FALSE
  /\ lastCall' = "none"
  /\ UNCHANGED <<audioCtx, isPlaying, bpm, engResolution, currentStep, nextNoteTime, timerId,
                 buffers, onStep, timers, timerDue, pending, tick, snapColumns, liveGrid,
                 sessionHist, transportCalls, playCalls,
                 handoffAfterStop, staleStart, noopBroken, skipBroken, engineFrame>>

\* the interval's callback starts: scheduler(getGridSnapshot) reads the snapshot
TickBegin ==
  /\ tick = "idle"
  /\ timers # {}
  /\ clock >= timerDue
  /\ pending = <<>> \/ audioCtx # "running"
  /\ audioCtx # "null"
  /\ tick' = "loop"
  /\ snapColumns' = LiveColumns
  /\ lastCall' = "none"
  /\ UNCHANGED <<audioCtx, clock, isPlaying, bpm, engResolution, currentStep, nextNoteTime,
                 timerId, buffers, onStep, timers, timerDue, pending, liveGrid,
                 engineHist, sessionTail, noopBroken, skipBroken, engineFrame>>

\* one pass of scheduler's while loop: scheduleStep (the triggers, then onStep,
\* which may call stop(), or stop() and then play()), then the advance of
\* nextNoteTime and currentStep. An exception raised by a trigger ends
\* scheduleStep, the loop and the interval's callback.
SchedulerPass(cb) ==
  /\ tick = "loop"
  /\ nextNoteTime < clock + scheduleAheadTimeSec
  /\ lastK + 1 < MaxSessionSteps
  /\ cb = "none" \/ onStep
  /\ cb = "stopPlay" => Len(pending) < MaxPending /\ playCalls < MaxPlayCalls
  /\ lastCall' = "none"
  /\ noopBroken' = noopBroken
  /\ LET out == ScheduleTriggers(currentStep, 1, {})
         trig == out.started
         active == {id \in InstIds : AtOr0(liveGrid[id], currentStep) > 0}
         missing == active \ buffers
         called == ~out.threw /\ onStep
         handedNow == IF trig # {}
                      THEN handed \cup {[k |-> lastK + 1, time |-> nextNoteTime, old |-> FALSE,
                                         insts |-> trig, skipped |-> missing]}
                      ELSE handed
     IN /\ IF out.threw
           THEN /\ cb = "none"
                /\ handed' = handedNow
                /\ handoffAfterStop' = (handoffAfterStop \/ (~isPlaying /\ trig # {}))
                /\ tick' = "idle"
                /\ timerDue' = (IF timers # {} THEN clock + lookaheadMs ELSE 0)
                /\ UNCHANGED <<isPlaying, timers, timerId, justStopped, pending, playCalls,
                               nextNoteTime, currentStep, lastK, lastTime, lastStep, outOfGrid,
                               startArg, startColumns, firstStep>>
           ELSE LET acted == trig # {} \/ onStep
                    stops == cb # "none" /\ isPlaying
                IN /\ playCalls' = (IF cb = "stopPlay" THEN playCalls + 1 ELSE playCalls)
                   /\ lastK' = lastK + 1
                   /\ lastTime' = nextNoteTime
                   /\ lastStep' = currentStep
                   /\ firstStep' = (IF lastK = -1 THEN currentStep ELSE firstStep)
                   /\ startArg' = (IF lastK = -1 THEN startArg ELSE 0)
                   /\ startColumns' = (IF lastK = -1 THEN startColumns ELSE 0)
                   /\ outOfGrid' = (outOfGrid \/ currentStep < 0 \/ currentStep >= snapColumns)
                   /\ handed' = handedNow
                   /\ handoffAfterStop' = (IF stops THEN FALSE
                                           ELSE handoffAfterStop \/ (~isPlaying /\ acted))
                   /\ isPlaying' = (IF stops THEN FALSE ELSE isPlaying)
                   /\ timers' = (IF stops THEN ClearedTimers ELSE timers)
                   /\ timerId' = (IF stops THEN 0 ELSE timerId)
                   /\ justStopped' = (IF stops THEN TRUE ELSE justStopped)
                   /\ pending' = (IF cb = "none" THEN pending
                                  ELSE IF cb = "stop" THEN MarkStale(pending)
                                  ELSE Append(MarkStale(pending), [start |-> 0, stale |-> FALSE]))
                   /\ nextNoteTime' = AdvanceNoteTime(nextNoteTime, clock)
                   /\ currentStep' = NextStep(currentStep, snapColumns)
                   /\ UNCHANGED <<tick, timerDue>>
        /\ skipBroken' =
             (skipBroken \/
              (missing # {} /\
               ~(/\ trig = active \cap buffers
                 /\ called = onStep
                 /\ nextNoteTime' = AdvanceNoteTime(nextNoteTime, clock)
                 /\ currentStep' = NextStep(currentStep, snapColumns)
                 /\ isPlaying' = (isPlaying /\ cb = "none"))))
  /\ UNCHANGED <<audioCtx, clock, bpm, engResolution, buffers, onStep,
                 snapColumns, liveGrid, playClock, steady, transportCalls, staleStart,
                 colsSteady, engineFrame>>

\* the while loop ends and the callback returns; the history of a session
\* stopped from inside the loop ends here
TickEnd ==
  /\ tick = "loop"
  /\ ~(nextNoteTime < clock + scheduleAheadTimeSec)
  /\ tick' = "idle"
  /\ timerDue' = (IF timers # {} THEN clock + lookaheadMs ELSE 0)
  /\ lastCall' = "none"
  /\ IF isPlaying
     THEN UNCHANGED sessionHist
     ELSE SessionOver
  /\ UNCHANGED <<audioCtx, clock, isPlaying, bpm, engResolution, currentStep, nextNoteTime,
                 timerId, buffers, onStep, timers, pending, snapColumns, liveGrid,
                 transportCalls, playCalls, justStopped, handoffAfterStop, staleStart, handed,
                 noopBroken, skipBroken, engineFrame>>

EngineNext ==
  \/ \E startStep \in StartSteps : PlayCall(startStep)
  \/ ResumeResolved
  \/ PlayResume
  \/ Stop
  \/ \E tr \in Transports : setTransport(tr[1], tr[2])
  \/ \E fn \in BOOLEAN : setOnStep(fn)
  \/ \E g \in EngineGrids : GridChange(g)
  \/ \E d \in ClockSteps : AdvanceClock(d)
  \/ TickBegin
  \/ \E cb \in {"none", "stop", "stopPlay"} : SchedulerPass(cb)
  \/ TickEnd

Spec == EngineInit /\ [][EngineNext]_vars

\* ------------------------------------------- the poll ticks of a session
\* the engine after play(getGridSnapshot) has started a session at clock 0,
\* for any transport set before it
TickInit ==
  /\ audioCtx = "running" /\ clock = 0 /\ isPlaying = TRUE
  /\ bpm \in TickBpms /\ engResolution \in Resolutions
  /\ buffers \in BufferSets /\ onStep \in BOOLEAN /\ liveGrid \in EngineGrids
  /\ currentStep = ClampStart(0, LiveColumns)
  /\ nextNoteTime = clock + InitialOffset
  /\ timerId = 1 /\ timers = {1} /\ timerDue = clock + lookaheadMs
  /\ pending = <<>> /\ tick = "idle" /\ snapColumns = 0
  /\ playClock = clock /\ lastK = -1 /\ lastTime = 0 /\ steady = TRUE
  /\ transportCalls = 0 /\ playCalls = 1
  /\ justStopped = FALSE /\ handoffAfterStop = FALSE /\ staleStart = FALSE /\ handed = {}
  /\ startArg = 0 /\ startColumns = LiveColumns /\ lastStep = -1 /\ colsSteady = TRUE
  /\ outOfGrid = FALSE /\ firstStep = -1 /\ lastCall = "none"
  /\ noopBroken = FALSE /\ skipBroken = FALSE
  /\ AppIdle /\ bars = 1
  /\ NotationIdle
  /\ RemapIdle

\* the interval's callback runs on time or late, the transport may be set
\* between two ticks, and onStep may call stop()
TickNext ==
  \/ \E d \in LateSteps : AdvanceClock(d)
  \/ \E nextBpm \in TickBpms : \E nextResolution \in Resolutions :
       setTransport(nextBpm, nextResolution)
  \/ TickBegin
  \/ \E cb \in {"none", "stop"} : SchedulerPass(cb)
  \/ TickEnd

SpecTick == TickInit /\ [][TickNext]_vars

\* --------------------------------------------------- claims: engine
\* C2: once stop() has run while playing, no trigger is handed to the audio
\* backend and onStep is not called until a later play() starts scheduling,
\* also when stop() is called from onStep while the scheduling loop of the
\* tick still has steps inside the horizon.
C2_NoHandoffAfterStop == ~handoffAfterStop

\* secondsPerStep as the claim writes it, (60/bpm)*(4/resolution) as one quotient
ClaimSecondsPerStep == (Minute * 4) \div (bpm * engResolution)

\* the step length the claim states: its formula, and 0.0625 s (25 units) at
\* bpm 120 and resolution 16
StatedSecondsPerStep ==
  IF bpm = 120 /\ engResolution = 16 THEN 25 ELSE ClaimSecondsPerStep

\* C3 as stated: in a session with constant bpm and resolution the k-th step
\* scheduled gets the time (clock at play()) + initial offset + k *
\* secondsPerStep, whatever the timer's firing times, with secondsPerStep =
\* 0.0625 s at bpm 120 and resolution 16.
C3_DriftFreeStated ==
  (lastK >= 0 /\ steady) =>
    lastTime = playClock + InitialOffset + lastK * StatedSecondsPerStep

\* C3 amended: the same with secondsPerStep = (60/bpm)*(4/resolution)
\* throughout, which is 0.125 s (50 units) at bpm 120 and resolution 16.
C3_DriftFree ==
  /\ (lastK >= 0 /\ steady) =>
       lastTime = playClock + InitialOffset + lastK * ClaimSecondsPerStep
  /\ (bpm = 120 /\ engResolution = 16) => secondsPerStep = 50

\* a session at bpm 120 and resolution 16 whose second step (k = 1) was scheduled by a
\* tick that fired late
C3_Witness ==
  /\ steady /\ lastK = 1 /\ bpm = 120 /\ engResolution = 16
  /\ clock > playClock + lookaheadMs

\* a session at bpm 240 whose steps k = 0..3 were scheduled
C3_WitnessFourSteps ==
  steady /\ lastK = 3 /\ bpm = 240 /\ engResolution = 16

\* C4: when stop() is followed at once by play(), the new session's first step
\* is handed over exactly once and no trigger handed over before has its start
\* between the stop() and the new session's first event time, the clock at the
\* new play() + initial offset.
C4_StopStartSafe ==
  /\ Cardinality({h \in handed : ~h.old /\ h.k = 0}) <= 1
  /\ (isPlaying /\ justStopped /\ lastK = -1) =>
       \A h \in handed : ~(clock <= h.time /\ h.time < nextNoteTime)

\* C5: the scheduler is Stopped or Playing, Playing exactly while the one
\* interval is set, and after a stop() it stays Stopped until a play() called
\* after that stop(): no play() called before the stop() starts playback after it.
C5_StoppedAfterStop ==
  /\ isPlaying <=> timerId # 0
  /\ timers = (IF timerId # 0 THEN {timerId} ELSE {})
  /\ ~staleStart


\* C12: a play() that starts playback puts the step cursor on startStep clamped
\* to [0, columns - 1] and the next event time on the audio clock of that moment
\* plus the initial offset; the first step the session schedules is that step and
\* its start time lies between the clock at play() and that clock plus the
\* initial offset, for a startStep below, inside or beyond the grid
ClaimClamp(startStep, cols) ==
  IF startStep < 0 THEN 0 ELSE IF startStep > cols - 1 THEN cols - 1 ELSE startStep
C12_FirstEvent ==
  /\ (isPlaying /\ lastK = -1 /\ tick = "idle")
       => /\ startColumns >= 1
          /\ currentStep = ClaimClamp(startArg, startColumns)
          /\ nextNoteTime = playClock + InitialOffset
  /\ (lastK = 0 /\ tick = "idle")
       => /\ lastStep = ClaimClamp(startArg, startColumns)
          /\ playClock <= lastTime /\ lastTime <= playClock + InitialOffset
\* the first step of a session started with startStep = columns has been
\* scheduled: it is the last column
C12_Witness ==
  /\ lastK = 0 /\ tick = "idle" /\ startArg = 1 /\ startColumns = 1 /\ lastStep = 0
  /\ lastTime = playClock + InitialOffset
\* a session started with a negative startStep has scheduled its first step
C12_WitnessNegative ==
  lastK = 0 /\ tick = "idle" /\ startArg = -1 /\ lastStep = 0


\* C13: when an instrument active at the step being scheduled has no decoded
\* buffer, only its trigger is skipped: the other active instruments are
\* triggered, the callback is called, the next event time and the step cursor
\* advance and the engine keeps playing, as for a step whose buffers are all
\* there; no source is started for the instrument without a buffer
C13_MissingSampleSkipped ==
  /\ ~skipBroken
  /\ \A h \in handed : h.insts \cap h.skipped = {} /\ h.insts \subseteq buffers
\* a step with one instrument triggered and another one skipped for want of a
\* buffer has been scheduled, and the session has gone on to a later step
C13_Witness ==
  /\ isPlaying /\ tick = "idle" /\ lastK >= 1
  /\ \E h \in handed : ~h.old /\ h.k < lastK /\ h.insts # {} /\ h.skipped # {}


\* C17: in a play session whose snapshots keep their columns, the k-th step
\* scheduled (k = 0, 1, ...) is step (first step + k) modulo columns, whatever
\* the poll ticks that scheduled them: no step is skipped or repeated and step
\* 0 follows step columns - 1; the instruments active at a step are all given
\* that step's event time, and the cursor stands on the step after it once the
\* step's callback has returned.
C17_StepOrder ==
  (lastK >= 0 /\ colsSteady) =>
    /\ firstStep \in 0..(LiveColumns - 1)
    /\ lastStep = (firstStep + lastK) % LiveColumns
    /\ currentStep = (firstStep + lastK + 1) % LiveColumns
    /\ \A h \in handed :
         (~h.old /\ h.k = lastK) =>
           /\ h.time = lastTime
           /\ h.insts = {id \in buffers : AtOr0(liveGrid[id], lastStep) > 0}
\* a session on a grid of two columns started on its last column and has
\* scheduled four steps: 1, 0, 1, 0
C17_Witness ==
  /\ isPlaying /\ colsSteady /\ LiveColumns = 2
  /\ firstStep = 1 /\ lastK = 3 /\ lastStep = 0 /\ currentStep = 1


\* C18: every step index the scheduler looks up in the grid and passes to the
\* callback lies in 0..columns - 1 for the columns of the snapshot its poll tick
\* read, also when the grid's columns changed between two poll ticks of a
\* session.
C18_CursorInGrid == ~outOfGrid


\* C19: a play() that resumes while the engine is playing leaves isPlaying,
\* the step cursor, the next event time, timerId and the active timers as they
\* were, and a stop() while the engine is stopped leaves every variable of
\* the engine as it was.
C19_RedundantCallsNoOp ==
  /\ ~noopBroken
  /\ lastCall = "play" => isPlaying
  /\ lastCall = "stop" => ~isPlaying
\* a play() has just resumed in a session that had scheduled a step already
C19_Witness == lastCall = "play" /\ lastK >= 0 /\ isPlaying /\ Cardinality(timers) = 1
\* a stop() has just run while the engine was stopped
C19_WitnessStop == lastCall = "stop" /\ audioCtx = "running"


\* C20: whatever the order in which play() calls are suspended and resumed,
\* stop() is called and poll ticks run, there is at most one active interval,
\* and the engine is playing exactly when there is one.
C20_SingleTimer ==
  /\ Cardinality(timers) <= 1
  /\ isPlaying <=> Cardinality(timers) = 1
\* two play() calls were made and both have resumed before the first poll
\* tick: the engine plays on one interval
C20_Witness ==
  /\ playCalls = 2 /\ pending = <<>> /\ lastCall = "play" /\ lastK = -1
  /\ isPlaying /\ Cardinality(timers) = 1
\* a session was stopped: no interval is left
C20_WitnessStopped == ~isPlaying /\ justStopped /\ timers = {} /\ tick = "idle"


\* C21: for every bpm > 0 and every resolution of 4, 8 and 16, however late
\* the interval's callback runs, every pass of the loop moves nextNoteTime
\* forward, so that the poll tick ends after finitely many steps; when it ends,
\* nextNoteTime is at least the audio clock plus the schedule-ahead time; and
\* nextNoteTime never goes back while a session plays.
C21_TickFillsLookahead ==
  /\ [][(tick = "loop" /\ lastK' = lastK + 1) => nextNoteTime' > nextNoteTime]_vars
  /\ [][(tick = "loop" /\ tick' = "idle")
         => nextNoteTime' >= clock' + scheduleAheadTimeSec]_vars
  /\ [][(isPlaying /\ isPlaying') => nextNoteTime' >= nextNoteTime]_vars

====
